---------------------------- MODULE Spec2Model ----------------------------
(***************************************************************************)
(* OBD-II over CAN client (obd2can.py, class OBD2CAN) and its peers.       *)
(*                                                                         *)
(* The client is single threaded: send() is a retry loop around the CAN    *)
(* driver, request() is send() followed by a busy poll loop that           *)
(* reassembles ISO-TP frames until a deadline.  One step of the model is   *)
(* one iteration of one of these loops.  The CAN driver is the receive     *)
(* queue rxq (any / recv / clear_rx_queue) and the transmit log txlog      *)
(* (send).  Bytes are integers 0..255, byte strings are sequences.         *)
(***************************************************************************)
EXTENDS Integers, Sequences, FiniteSets, TLC

(***************************************************************************)
(* Bounds of the model.                                                    *)
(***************************************************************************)
\* frames the bus delivers to the client during one top-level call
MaxFrames == 3
\* capacity of the driver's receive queue
MaxQueue == 1
\* largest retries argument tried for a direct send()
MaxRetries == 4
\* longest multi-frame message a responder segments
MaxMsgLen == 120
\* longest message of the responder that also transmits out of order
MaxStrayLen == 27
\* consecutive frames with a wrong sequence number it transmits
MaxStray == 2
\* request() calls an application makes one after the other
MaxCalls == 2
\* times a responder starts its message over
MaxRepeats == 1
\* frames other nodes put on the bus for the simulator
MaxEcuFrames == 2

(***************************************************************************)
(* Program constants.                                                      *)
(***************************************************************************)
\* 0xCC, padding of a transmitted frame
FILLER == 204
\* sleep_ms(50) between two transmit attempts
BACKOFF_MS == 50
\* retries: int = 3
DEFAULT_RETRIES == 3
\* timeout_ms: int = 1000
DEFAULT_TIMEOUT_MS == 1000
\* 0x40, response service id = request service id + 0x40
RESP_OFFSET == 64
\* 0x30 0x00 0x00, the flow control frame
FC_CTS == 48

Min(a, b) == IF a < b THEN a ELSE b

IsByte(x) == x \in 0..255

\* Python's d[a:b] for 0 <= a, on a sequence (slices clip, they never raise)
Slice(d, a, b) == SubSeq(d, a + 1, Min(b, Len(d)))

\* Python's d[a:]
SliceFrom(d, a) == SubSeq(d, a + 1, Len(d))

\* [x] * n
Repeat(x, n) == [i \in 1..(IF n > 0 THEN n ELSE 0) |-> x]

(***************************************************************************)
(* Addressing (OBD2CAN.__init__).                                          *)
(***************************************************************************)
reqs_id(ext) == IF ext THEN 417018865 ELSE 2015

resp_id(ext) == IF ext THEN <<417001744, 417001759>> ELSE <<2024, 2031>>

VARIABLES
    extframe,        \* self.extframe
    api,             \* the public method the application called
    payload,         \* the arguments of request()
    timeout_ms,      \* request(timeout_ms=)
    pc,              \* where the client is: idle, req_send, poll, fc_send, raw_send, done
    ret,             \* how request()/send() ended: running, value, None, True, False, IndexError, ValueError
    exit,            \* which statement ended request()
    response,        \* the bytes request() returned (ret = "value")
    multiframe_seq,
    multiframe_len,
    multiframe_buf,
    rx_timeout,      \* the deadline
    now,             \* ticks_ms()
    rxq,             \* the driver's receive queue
    txlog,           \* frames the driver transmitted, with the time
    msg,             \* send(): the padded frame being transmitted
    retries,         \* send(): the retry budget left
    attempts,        \* send(): can.send calls of this send()
    clears,          \* send(): clear_rx_queue calls of this send()
    budget,          \* send(): the retries argument of this send()
    nframes,         \* frames the bus has delivered so far
    used,            \* received frames that changed the state of request()
    svc,             \* get_supported_pid / get_dtcs: none, running, returned, raised
    pid_code,        \* get_supported_pid: the block being asked for
    result,          \* get_supported_pid: the bytearray of PIDs
    codes,           \* get_dtcs: the list of codes
    peer,            \* the responder on the bus: n, the length of its message,
                     \* and sent, the frames it has transmitted
    ecu,             \* the simulator (dummy_ecu.py, class DummyEcu): its driver's
                     \* receive queue and where process() is
    wire             \* frames the simulator's driver has accepted for
                     \* transmission and the client's driver has not yet queued

callVars  == <<api, payload, timeout_ms>>
reasmVars == <<multiframe_seq, multiframe_len, multiframe_buf>>
sendVars  == <<msg, retries, attempts, clears, budget>>
endVars   == <<ret, exit, response>>
svcVars   == <<svc, pid_code, result, codes>>
ecuVars   == <<ecu, wire>>
vars == <<extframe, api, payload, timeout_ms, pc, ret, exit, response,
          multiframe_seq, multiframe_len, multiframe_buf, rx_timeout, now,
          rxq, txlog, msg, retries, attempts, clears, budget, nframes, used,
          svc, pid_code, result, codes, peer, ecu, wire>>

Frame(id, ext, rtr, data) == [id |-> id, ext |-> ext, rtr |-> rtr, data |-> data]

(***************************************************************************)
(* time: ticks_add, ticks_diff                                             *)
(***************************************************************************)
ticks_add(t, d) == t + d

ticks_diff(a, b) == a - b

\* while ticks_diff(rx_timeout, ticks_ms()) > 0
InTime_Early(deadline, t) == ticks_diff(deadline, t) > 1

InTime(deadline, t) == ticks_diff(deadline, t) > 0

(***************************************************************************)
(* request(): the software acceptance filter, lines 188-191.  A frame for  *)
(* which either test holds is skipped.                                     *)
(***************************************************************************)
IdRejected(id, ext) == resp_id(ext)[1] > id /\ id > resp_id(ext)[2]

FlagsRejected(f, ext) == f.rtr \/ (f.ext # ext)

Accepted(f, ext) == ~IdRejected(f.id, ext) /\ ~FlagsRejected(f, ext)

(***************************************************************************)
(* request(): one received frame that passed the filter, lines 193-242.    *)
(* The value is what the iteration does: act is                            *)
(*   continue  back to the loop head                                       *)
(*   rearm     back to the loop head with a fresh deadline                 *)
(*   return    request() returns out                                       *)
(*   fc        the flow control frame is sent                              *)
(*   raise     an IndexError leaves request()                              *)
(* and seq, len, buf are the reassembly variables after it.                *)
(***************************************************************************)
Step(act, seq, len, buf, out) ==
    [act |-> act, seq |-> seq, len |-> len, buf |-> buf, out |-> out]

\* if len(payload) >= data_mv[0] >= 8: continue
SfLenRejected(p, d0) == Len(p) >= d0 /\ d0 >= 8

\* the service id test, data_mv[k] != payload[0] + 0x40 (k as a 1-based index)
SidMismatch(p, d, k) == d[k] # p[1] + RESP_OFFSET

\* try: if data_mv[k] != payload[1]: continue / except IndexError: pass
PidMismatch(p, d, k) == Len(d) >= k /\ Len(p) >= 2 /\ d[k] # p[2]

\* multiframe_seq = (multiframe_seq + 1) & 0x0F
NextSeq(seq) == (seq + 1) % 16

\* multiframe_len = ((data_mv[0] & 0x0F) << 8) | data_mv[1]
FfLen(d) == (d[1] % 16) * 256 + d[2]

\* return data_mv[1:1 + data_mv[0]]
SfSlice_WholeFrame(d) == SliceFrom(d, 1)

SfSlice(d) == Slice(d, 1, 1 + d[1])

\* the branch without the test of line 202
Consecutive_AnySeq(d, seq, len, buf) ==
    IF d[1] \div 16 # 2 THEN Step("continue", seq, len, buf, <<>>)
    ELSE LET b == buf \o SliceFrom(d, 1) IN
         IF Len(b) < len
         THEN Step("rearm", NextSeq(seq), len, b, <<>>)
         ELSE Step("return", NextSeq(seq), len, b, Slice(b, 0, len))

Consecutive(d, seq, len, buf) ==
    IF d[1] \div 16 # 2 THEN Step("continue", seq, len, buf, <<>>)
    ELSE IF d[1] % 16 # seq THEN Step("continue", seq, len, buf, <<>>)
    ELSE LET b == buf \o SliceFrom(d, 1) IN
         IF Len(b) < len
         THEN Step("rearm", NextSeq(seq), len, b, <<>>)
         ELSE Step("return", NextSeq(seq), len, b, Slice(b, 0, len))

SingleFrame(p, d, seq, len, buf) ==
    IF SfLenRejected(p, d[1]) THEN Step("continue", seq, len, buf, <<>>)
    ELSE IF Len(d) < 2 THEN Step("raise", seq, len, buf, <<>>)
    ELSE IF SidMismatch(p, d, 2) THEN Step("continue", seq, len, buf, <<>>)
    ELSE IF PidMismatch(p, d, 3) THEN Step("continue", seq, len, buf, <<>>)
    ELSE Step("return", seq, len, buf, SfSlice(d))

FirstFrame(p, d, seq, len, buf) ==
    IF Len(d) < 2 THEN Step("raise", seq, len, buf, <<>>)
    ELSE LET n == FfLen(d) IN
         IF n <= 7 THEN Step("continue", 1, n, <<>>, <<>>)
         ELSE IF Len(d) < 3 THEN Step("raise", 1, n, <<>>, <<>>)
         ELSE IF SidMismatch(p, d, 3) THEN Step("continue", 1, n, <<>>, <<>>)
         ELSE IF PidMismatch(p, d, 4) THEN Step("continue", 1, n, <<>>, <<>>)
         ELSE Step("fc", 1, n, SliceFrom(d, 2), <<>>)

ProcessFrame(p, d, seq, len, buf) ==
    IF Len(d) = 0 THEN Step("raise", seq, len, buf, <<>>)
    ELSE IF seq # 0 THEN Consecutive(d, seq, len, buf)
    ELSE IF d[1] \div 16 = 0 THEN SingleFrame(p, d, seq, len, buf)
    ELSE IF d[1] \div 16 = 1 THEN FirstFrame(p, d, seq, len, buf)
    ELSE Step("continue", seq, len, buf, <<>>)

(***************************************************************************)
(* send(): msg = bytes(list(payload) + [0xCC] * (8 - len(payload)))        *)
(***************************************************************************)
Padded(p) == p \o Repeat(FILLER, 8 - Len(p))

\* bytes() raises ValueError for an element outside 0..255
BytesOk(p) == \A i \in 1..Len(p) : IsByte(p[i])

\* if retries > 1: retries -= 1 ... else: break
MayRetry(r) == r > 1

(***************************************************************************)
(* DummyEcu.__init__: the simulator is constructed with the addressing     *)
(* mode ext.  rxq is its driver's receive queue, pc where process() is     *)
(* (idle, second: between its two transmissions, raised), msg the response *)
(* being transmitted, re the request it answers (0: none), last the frame  *)
(* the current cycle took off the queue, tx the can.send calls of the      *)
(* current cycle, heard the frames of the client it has received.          *)
(***************************************************************************)
EcuInit(ext) ==
    [extframe |-> ext, rxq |-> <<>>, pc |-> "idle", msg |-> <<>>, re |-> 0,
     last |-> <<>>, tx |-> <<>>, heard |-> 0]

(***************************************************************************)
(* The initial state: the objects are constructed, nothing is running.     *)
(***************************************************************************)
Init ==
    /\ extframe \in BOOLEAN
    /\ api = "none"
    /\ payload = <<>>
    /\ timeout_ms = 0
    /\ pc = "idle"
    /\ ret = "running"
    /\ exit = "none"
    /\ response = <<>>
    /\ multiframe_seq = 0
    /\ multiframe_len = 0
    /\ multiframe_buf = <<>>
    /\ rx_timeout = 0
    /\ now = 0
    /\ rxq = <<>>
    /\ txlog = <<>>
    /\ msg = <<>>
    /\ retries = 0
    /\ attempts = 0
    /\ clears = 0
    /\ budget = 0
    /\ nframes = 0
    /\ used = <<>>
    /\ svc = "none"
    /\ pid_code = 0
    /\ result = <<>>
    /\ codes = <<>>
    /\ peer = [n |-> 0, sent |-> 0]
    /\ ecu = EcuInit(extframe)
    /\ wire = <<>>

(***************************************************************************)
(* send(p, retries=n) is entered: the frame is built, or bytes() raises.  *)
(* where is the loop that runs next (req_send, fc_send, raw_send).         *)
(***************************************************************************)
EnterSend(p, n, where) ==
    IF BytesOk(p)
    THEN /\ msg' = Padded(p)
         /\ retries' = n
         /\ budget' = n
         /\ attempts' = 0
         /\ clears' = 0
         /\ pc' = where
         /\ ret' = "running"
         /\ exit' = "none"
         /\ response' = <<>>
    ELSE /\ pc' = "done"
         /\ ret' = "ValueError"
         /\ exit' = "raised"
         /\ UNCHANGED <<response, sendVars>>

\* request(p, timeout_ms=t): line 178, if not self.send(len(payload), *payload)
EnterRequest(p, t) ==
    /\ payload' = p
    /\ timeout_ms' = t
    /\ used' = <<>>
    /\ EnterSend(<<Len(p)>> \o p, DEFAULT_RETRIES, "req_send")

\* the requests an application makes: service 0x01 PID 0x0C, service 0x03
Requests == {<<1, 12>>, <<3>>}

\* the timeout_ms arguments tried, in clock ticks
Timeouts == {1, 2}

CallRequest ==
    /\ pc = "idle"
    /\ \E p \in Requests, t \in Timeouts :
          /\ api' = "request"
          /\ EnterRequest(p, t)
    /\ UNCHANGED <<extframe, reasmVars, rx_timeout, now, rxq, txlog, nframes,
                   svcVars, peer, ecuVars>>

CallSend ==
    /\ pc = "idle"
    /\ \E n \in 0..MaxRetries :
          /\ api' = "send"
          /\ EnterSend(<<2, 1, 12>>, n, "raw_send")
    /\ UNCHANGED <<extframe, payload, timeout_ms, used, reasmVars, rx_timeout,
                   now, rxq, txlog, nframes,
                   svcVars, peer, ecuVars>>

(***************************************************************************)
(* send(): one pass of the while loop, lines 149-163.                      *)
(***************************************************************************)
InSend == pc \in {"req_send", "fc_send", "raw_send"}

\* can.send succeeded: send() returns True, the caller goes on
SendOk ==
    /\ InSend
    /\ rxq' = <<>>
    /\ clears' = clears + 1
    /\ attempts' = attempts + 1
    /\ txlog' = Append(txlog,
                  [id |-> reqs_id(extframe), ext |-> extframe, rtr |-> FALSE,
                   data |-> msg, t |-> now])
    /\ IF pc = "raw_send"
       THEN /\ pc' = "done"
            /\ ret' = "True"
            /\ UNCHANGED <<exit, response, reasmVars, rx_timeout>>
       ELSE /\ pc' = "poll"
            /\ rx_timeout' = ticks_add(now, timeout_ms)
            /\ multiframe_seq' = IF pc = "req_send" THEN 0 ELSE multiframe_seq
            /\ UNCHANGED <<endVars, multiframe_len, multiframe_buf>>
    /\ UNCHANGED <<extframe, callVars, now, msg, retries, budget, nframes, used,
                   svcVars, peer, ecuVars>>

\* can.send raised: another attempt after the back-off, or send() returns False
SendFail ==
    /\ InSend
    /\ rxq' = <<>>
    /\ clears' = clears + 1
    /\ attempts' = attempts + 1
    /\ IF MayRetry(retries)
       THEN /\ retries' = retries - 1
            /\ now' = now + BACKOFF_MS
            /\ UNCHANGED <<pc, endVars>>
       ELSE /\ pc' = "done"
            /\ ret' = IF pc = "raw_send" THEN "False" ELSE "None"
            /\ exit' = IF pc = "req_send" THEN "send_failed"
                       ELSE IF pc = "fc_send" THEN "fc_failed" ELSE exit
            /\ UNCHANGED <<retries, now, response>>
    /\ UNCHANGED <<extframe, callVars, reasmVars, rx_timeout, txlog, msg,
                   budget, nframes, used,
                   svcVars, peer, ecuVars>>

(***************************************************************************)
(* request(): the poll loop, lines 183-245.                                *)
(***************************************************************************)
\* the loop condition is false: line 245, return None
PollTimeout ==
    /\ pc = "poll"
    /\ ~InTime(rx_timeout, now)
    /\ pc' = "done"
    /\ ret' = "None"
    /\ exit' = "timeout"
    /\ UNCHANGED <<extframe, callVars, response, reasmVars, rx_timeout, now, rxq,
                   txlog, sendVars, nframes, used,
                   svcVars, peer, ecuVars>>

\* one iteration that finds a frame queued
PollRecv ==
    /\ pc = "poll"
    /\ InTime(rx_timeout, now)
    /\ rxq # <<>>
    /\ LET f == Head(rxq) IN
       IF ~Accepted(f, extframe)
       THEN /\ rxq' = Tail(rxq)
            /\ UNCHANGED <<pc, endVars, reasmVars, rx_timeout, sendVars, used>>
       ELSE LET s == ProcessFrame(payload, f.data, multiframe_seq,
                                  multiframe_len, multiframe_buf) IN
            /\ multiframe_seq' = s.seq
            /\ multiframe_len' = s.len
            /\ multiframe_buf' = s.buf
            /\ used' = IF s.act # "continue" \/ s.seq # multiframe_seq
                          \/ s.len # multiframe_len \/ s.buf # multiframe_buf
                       THEN Append(used, f) ELSE used
            /\ CASE s.act = "continue" ->
                      /\ rxq' = Tail(rxq)
                      /\ UNCHANGED <<pc, endVars, rx_timeout, sendVars>>
                 [] s.act = "rearm" ->
                      /\ rxq' = Tail(rxq)
                      /\ rx_timeout' = ticks_add(now, timeout_ms)
                      /\ UNCHANGED <<pc, endVars, sendVars>>
                 [] s.act = "return" ->
                      /\ rxq' = Tail(rxq)
                      /\ pc' = "done"
                      /\ ret' = "value"
                      /\ response' = s.out
                      /\ exit' = IF multiframe_seq # 0 THEN "cf_complete"
                                 ELSE "single_frame"
                      /\ UNCHANGED <<rx_timeout, sendVars>>
                 [] s.act = "raise" ->
                      /\ rxq' = Tail(rxq)
                      /\ pc' = "done"
                      /\ ret' = "IndexError"
                      /\ exit' = "raised"
                      /\ UNCHANGED <<response, rx_timeout, sendVars>>
                 [] s.act = "fc" ->
                      /\ rxq' = Tail(rxq)
                      /\ EnterSend(<<FC_CTS, 0, 0>>, DEFAULT_RETRIES, "fc_send")
                      /\ UNCHANGED rx_timeout
    /\ UNCHANGED <<extframe, callVars, now, txlog, nframes,
                   svcVars, peer, ecuVars>>

\* the clock, read by the loop condition
Tick ==
    /\ pc = "poll"
    /\ InTime(rx_timeout, now)
    /\ now' = now + 1
    /\ UNCHANGED <<extframe, callVars, pc, endVars, reasmVars, rx_timeout, rxq,
                   txlog, sendVars, nframes, used,
                   svcVars, peer, ecuVars>>

(***************************************************************************)
(* The bus: any frame may arrive while the call is running.                *)
(***************************************************************************)
\* payloads of single frames; 0x41 0x0C answers <<1, 12>>, 0x43 answers <<3>>
SfData ==
    { <<4, 65, 12, 26, 10, 170, 170, 170>>,
      <<4, 65, 12, 26, 10, 85, 0, 255>>,
      <<1, 65, 12, 170, 170, 170, 170, 170>>,
      <<0, 65, 12, 170, 170, 170, 170, 170>>,
      <<8, 65, 12, 1, 2, 3, 4, 5>>,
      <<3, 127, 1, 18, 170, 170, 170, 170>>,
      <<3, 65, 13, 55, 170, 170, 170, 170>>,
      <<7, 67, 2, 1, 67, 10, 0, 170>>,
      <<2, 65>>,
      <<7, 65, 12>>,
      <<>> }

\* payloads of first frames
FfData ==
    { <<16, 10, 65, 12, 1, 2, 3, 4>>,
      <<16, 14, 65, 12, 1, 2, 3, 4>>,
      <<16, 5, 65, 12, 1, 2, 3, 4>>,
      <<16, 10, 73, 2, 1, 2, 3, 4>>,
      <<16, 10, 65, 13, 1, 2, 3, 4>>,
      <<16, 10>> }

\* payloads of consecutive frames and of a flow control frame
CfData ==
    { <<33, 5, 6, 7, 8, 9, 10, 11>>,
      <<34, 12, 13, 14, 15, 16, 17, 18>>,
      <<32, 19, 20, 21, 22, 23, 24, 25>>,
      <<48, 0, 0>> }

\* payloads sent under the headers the filter has to judge
HeaderData ==
    { <<4, 65, 12, 26, 10, 170, 170, 170>>,
      <<16, 10, 65, 12, 1, 2, 3, 4>>,
      <<33, 5, 6, 7, 8, 9, 10, 11>> }

\* the frames the bus can carry in a session with addressing ext
Frames(ext) ==
    { Frame(resp_id(ext)[1], ext, FALSE, d) : d \in SfData \cup FfData \cup CfData }
    \cup { Frame(id, ext, FALSE, d) :
             id \in {resp_id(ext)[2], resp_id(ext)[1] - 1}, d \in HeaderData }
    \cup { Frame(resp_id(ext)[2] + 1, ext, FALSE, <<4, 65, 12, 26, 10, 170, 170, 170>>),
           Frame(resp_id(ext)[1], ~ext, FALSE, <<4, 65, 12, 26, 10, 170, 170, 170>>),
           Frame(resp_id(ext)[1], ext, TRUE, <<4, 65, 12, 26, 10, 170, 170, 170>>) }

\* the bus hands the driver one of the frames of F
DeliverFrom(F) ==
    /\ pc \in {"req_send", "poll", "fc_send"}
    /\ nframes < MaxFrames
    /\ Len(rxq) < MaxQueue
    /\ \E f \in F : rxq' = Append(rxq, f)
    /\ nframes' = nframes + 1
    /\ UNCHANGED <<extframe, callVars, pc, endVars, reasmVars, rx_timeout, now,
                   txlog, sendVars, used,
                   svcVars, peer, ecuVars>>

Deliver == DeliverFrom(Frames(extframe))

Next ==
    \/ CallRequest
    \/ CallSend
    \/ SendOk
    \/ SendFail
    \/ PollRecv
    \/ PollTimeout
    \/ Tick
    \/ Deliver

Spec == Init /\ [][Next]_vars

(***************************************************************************)
(* The same client on a bus that carries only a response in one frame, a   *)
(* response in three frames and a first frame the client rejects, with the *)
(* clock advancing and the poll loop evaluating its condition again and    *)
(* again.                                                                  *)
(***************************************************************************)
TimedFrames(ext) ==
    { Frame(resp_id(ext)[1], ext, FALSE, d) :
        d \in { <<4, 65, 12, 26, 10, 170, 170, 170>>,
                <<16, 14, 65, 12, 1, 2, 3, 4>>,
                <<16, 5, 65, 12, 1, 2, 3, 4>>,
                <<33, 5, 6, 7, 8, 9, 10, 11>>,
                <<34, 12, 13, 14, 15, 16, 17, 18>> } }

DeliverTimed == DeliverFrom(TimedFrames(extframe))

TimedNext ==
    \/ CallRequest
    \/ SendOk
    \/ SendFail
    \/ PollRecv
    \/ PollTimeout
    \/ Tick
    \/ DeliverTimed

TimedSpec ==
    Init /\ [][TimedNext]_vars /\ WF_vars(Tick) /\ WF_vars(PollTimeout)

(***************************************************************************)
(* A responder that answers request(0x09, 0x02) with one message of n      *)
(* bytes in ISO-TP segments: a first frame with the 12 bit length and 6    *)
(* bytes, then, once the flow control frame is out, consecutive frames of  *)
(* 7 bytes numbered 1, 2, ..., 15, 1, ...; the last one is padded with     *)
(* 0xAA.  Every frame is handed over, and taken by the client, before the  *)
(* deadline.                                                               *)
(***************************************************************************)
RtRequest == <<9, 2>>

\* the message: the echoed service id and PID, then bytes that tell their
\* positions apart
Msg(n) ==
    [i \in 1..n |-> IF i = 1 THEN RtRequest[1] + RESP_OFFSET
                    ELSE IF i = 2 THEN RtRequest[2]
                    ELSE (i * 37 + 11) % 256]

\* the consecutive frames of a message of n bytes: (n - 6) / 7, rounded up
NumCf(n) == (n - 6 + 7 - 1) \div 7

CfSeq(k) == ((k - 1) % 15) + 1

FfOf(n) == <<16 + n \div 256, n % 256>> \o SubSeq(Msg(n), 1, 6)

CfOf(n, k) ==
    LET from == 6 + 7 * (k - 1) + 1
        to   == Min(n, 6 + 7 * k)
    IN  <<32 + CfSeq(k)>> \o SubSeq(Msg(n), from, to) \o Repeat(170, 7 - (to - from + 1))

\* the k-th frame of the message, k = 0 the first frame
Segment(n, k) == IF k = 0 THEN FfOf(n) ELSE CfOf(n, k)

CallRequestRT ==
    /\ pc = "idle"
    /\ \E n \in 8..MaxMsgLen, t \in Timeouts :
          /\ api' = "request"
          /\ peer' = [n |-> n, sent |-> 0]
          /\ EnterRequest(RtRequest, t)
    /\ UNCHANGED <<extframe, reasmVars, rx_timeout, now, rxq, txlog, nframes,
                   svcVars, ecuVars>>

\* the first frame follows the request, the consecutive frames follow the
\* flow control frame
PeerSegment ==
    /\ pc = "poll"
    /\ InTime(rx_timeout, now)
    /\ rxq = <<>>
    /\ peer.sent <= NumCf(peer.n)
    /\ Len(txlog) >= (IF peer.sent = 0 THEN 1 ELSE 2)
    /\ rxq' = <<Frame(resp_id(extframe)[1], extframe, FALSE,
                      Segment(peer.n, peer.sent))>>
    /\ peer' = [peer EXCEPT !.sent = @ + 1]
    /\ nframes' = nframes + 1
    /\ UNCHANGED <<extframe, callVars, pc, endVars, reasmVars, rx_timeout, now,
                   txlog, sendVars, used, svcVars, ecuVars>>

\* the clock does not reach the deadline while a frame is queued or due
TickRT ==
    /\ (rxq = <<>> /\ peer.sent > NumCf(peer.n)) \/ InTime(rx_timeout, now + 1)
    /\ Tick

RtNext ==
    \/ CallRequestRT
    \/ SendOk
    \/ PollRecv
    \/ PollTimeout
    \/ TickRT
    \/ PeerSegment

RtSpec == Init /\ [][RtNext]_vars

(***************************************************************************)
(* get_supported_pid() and get_dtcs(), lines 247-294.  Each calls          *)
(* request() with the default timeout; a step of the service is what it    *)
(* does when request() has ended.                                          *)
(***************************************************************************)
\* int.from_bytes(b, "big") & (1 << k): bit k of the big-endian number, read
\* from its bytes (Python's int has no width; a bit above the bytes is 0)
BitSet(b, k) ==
    /\ k \div 8 < Len(b)
    /\ (b[Len(b) - (k \div 8)] \div (2 ^ (k % 8))) % 2 = 1

\* for i in range(31)
BitmapRange == 0..30

RECURSIVE PidsFrom(_, _, _)
\* the PIDs the for loop appends from index i on, in the order of the loop
PidsFrom(mask, base, i) ==
    IF i \notin BitmapRange THEN <<>>
    ELSE (IF BitSet(mask, 31 - i) THEN <<base + i + 1>> ELSE <<>>)
         \o PidsFrom(mask, base, i + 1)

\* if pid_mask & 1
MoreBlocks(mask) == BitSet(mask, 0)

CallGetSupportedPid ==
    /\ pc = "idle"
    /\ api' = "get_supported_pid"
    /\ svc' = "running"
    /\ result' = <<>>
    /\ pid_code' = 0
    /\ EnterRequest(<<1, 0>>, DEFAULT_TIMEOUT_MS)
    /\ UNCHANGED <<extframe, reasmVars, rx_timeout, now, rxq, txlog, nframes,
                   codes, peer, ecuVars>>

\* request() has ended inside get_supported_pid: lines 259-270
SupportedPidStep ==
    /\ api = "get_supported_pid"
    /\ svc = "running"
    /\ pc = "done"
    /\ IF ret \in {"IndexError", "ValueError"}
       THEN /\ svc' = "raised"
            /\ UNCHANGED <<pid_code, result, payload, timeout_ms, used, pc,
                           endVars, sendVars>>
       ELSE IF ret = "None"
       THEN /\ svc' = "returned"
            /\ UNCHANGED <<pid_code, result, payload, timeout_ms, used, pc,
                           endVars, sendVars>>
       ELSE LET pid_mask == SliceFrom(response, 2) IN
            /\ result' = result \o PidsFrom(pid_mask, pid_code, 0)
            /\ IF MoreBlocks(pid_mask)
               THEN /\ pid_code' = pid_code + 32
                    /\ EnterRequest(<<1, pid_code + 32>>, DEFAULT_TIMEOUT_MS)
                    /\ UNCHANGED svc
               ELSE /\ svc' = "returned"
                    /\ UNCHANGED <<pid_code, payload, timeout_ms, used, pc,
                                   endVars, sendVars>>
    /\ UNCHANGED <<extframe, api, reasmVars, rx_timeout, now, rxq, txlog,
                   nframes, codes, peer, ecuVars>>

\* base_map = ['P', 'C', 'B', 'U']
base_map == <<"P", "C", "B", "U">>

Digits == <<"0", "1", "2", "3", "4", "5", "6", "7", "8", "9">>

RECURSIVE DecStr(_)
\* an int in an f-string: its decimal digits
DecStr(n) ==
    IF n < 10 THEN <<Digits[n + 1]>>
    ELSE DecStr(n \div 10) \o <<Digits[(n % 10) + 1]>>

\* f'{base_map[a >> 6]}{(a >> 4) & 3}{a & 0xF}{b >> 4}{b & 0xF}'
DtcCode(a, b) ==
    <<base_map[(a \div 64) + 1]>> \o DecStr((a \div 16) % 4) \o DecStr(a % 16)
        \o DecStr(b \div 16) \o DecStr(b % 16)

\* for i in range(0, len(dtc_bytes), 2)
DtcCodes(dtc_bytes) ==
    [k \in 1..(Len(dtc_bytes) \div 2) |->
        DtcCode(dtc_bytes[2 * k - 1], dtc_bytes[2 * k])]

CallGetDtcs ==
    /\ pc = "idle"
    /\ api' = "get_dtcs"
    /\ svc' = "running"
    /\ codes' = <<>>
    /\ EnterRequest(<<3>>, DEFAULT_TIMEOUT_MS)
    /\ UNCHANGED <<extframe, reasmVars, rx_timeout, now, rxq, txlog, nframes,
                   pid_code, result, peer, ecuVars>>

\* request() has ended inside get_dtcs: lines 280-294
DtcStep ==
    /\ api = "get_dtcs"
    /\ svc = "running"
    /\ pc = "done"
    /\ IF ret \in {"IndexError", "ValueError"}
       THEN svc' = "raised" /\ UNCHANGED codes
       ELSE IF ret = "None"
       THEN svc' = "returned" /\ codes' = <<>>
       ELSE LET dtc_bytes == SliceFrom(response, 2) IN
            /\ svc' = "returned"
            /\ codes' = IF Len(dtc_bytes) % 2 # 0 THEN <<>>
                         ELSE DtcCodes(dtc_bytes)
    /\ UNCHANGED <<extframe, callVars, pc, endVars, reasmVars, rx_timeout, now,
                   rxq, txlog, sendVars, nframes, used, pid_code, result, peer, ecuVars>>

(***************************************************************************)
(* Responders that answer a request with one single frame, or stay silent  *)
(* until the deadline, on a driver that transmits without error.           *)
(***************************************************************************)
\* nothing arrives: the clock reaches the deadline
Elapse ==
    /\ pc = "poll"
    /\ InTime(rx_timeout, now)
    /\ rxq = <<>>
    /\ now' = rx_timeout
    /\ UNCHANGED <<extframe, callVars, pc, endVars, reasmVars, rx_timeout, rxq,
                   txlog, sendVars, nframes, used, svcVars, peer, ecuVars>>

\* the single frame f answers the request transmitted last
Answer(f) ==
    /\ pc = "poll"
    /\ InTime(rx_timeout, now)
    /\ rxq = <<>>
    /\ peer.sent < Len(txlog)
    /\ rxq' = <<Frame(resp_id(extframe)[1], extframe, FALSE, f)>>
    /\ peer' = [peer EXCEPT !.sent = Len(txlog)]
    /\ nframes' = nframes + 1
    /\ UNCHANGED <<extframe, callVars, pc, endVars, reasmVars, rx_timeout, now,
                   txlog, sendVars, used, svcVars, ecuVars>>

\* 32 bit bitmaps: all PIDs, only the last, only the first, 0xBE1FA812
Bitmaps ==
    { <<255, 255, 255, 255>>, <<0, 0, 0, 1>>, <<128, 0, 0, 0>>,
      <<190, 31, 168, 18>> }

\* 06 41 <the PID of the request> <bitmap> AA
BitmapPeer ==
    /\ pc = "poll"
    /\ \E bm \in Bitmaps :
          Answer(<<6, 65, txlog[Len(txlog)].data[3]>> \o bm \o <<170>>)

PidNext ==
    \/ CallGetSupportedPid
    \/ SupportedPidStep
    \/ SendOk
    \/ PollRecv
    \/ PollTimeout
    \/ Elapse
    \/ BitmapPeer

PidSpec == Init /\ [][PidNext]_vars

\* the bytes a responder puts into its DTC pairs
DtcByteSet == {1, 10, 67, 255}

\* the byte strings of length n over S
RECURSIVE Strings(_, _)
Strings(S, n) ==
    IF n = 0 THEN {<<>>}
    ELSE {<<x>> \o t : x \in S, t \in Strings(S, n - 1)}

\* <length> 43 <number of codes> <DTC bytes> AA ..., up to 5 DTC bytes
DtcPeer ==
    /\ pc = "poll"
    /\ rxq = <<>>
    /\ \E n \in 0..5 : \E b \in Strings(DtcByteSet, n) :
          Answer(<<n + 2, 67, n \div 2>> \o b \o Repeat(170, 5 - n))

DtcNext ==
    \/ CallGetDtcs
    \/ DtcStep
    \/ SendOk
    \/ PollRecv
    \/ PollTimeout
    \/ Elapse
    \/ DtcPeer

DtcSpec == Init /\ [][DtcNext]_vars

(***************************************************************************)
(* What the specification says of request() and send().                    *)
(***************************************************************************)
\* the inclusive response range, the extended flag and the remote flag
InRange(f) == resp_id(extframe)[1] <= f.id /\ f.id <= resp_id(extframe)[2]

WellAddressed(f) == InRange(f) /\ f.ext = extframe /\ ~f.rtr

\* this step is an iteration of the poll loop that takes a frame off the queue
Receives == pc = "poll" /\ rxq # <<>> /\ rxq' = Tail(rxq)

\* a single frame of declared length 1..7 that carries its declared bytes
\* and echoes the request
EchoingSf(d) ==
    /\ Len(d) >= 2
    /\ d[1] \in 1..7
    /\ Len(d) >= 1 + d[1]
    /\ d[2] = payload[1] + 64
    /\ Len(payload) >= 2 => (Len(d) >= 3 /\ d[3] = payload[2])

(* C1: whatever request() returns starts with the request's service id     *)
(* plus 0x40 and, when a PID was requested, continues with that PID.  Bytes *)
(* a short result does not have are not judged here.                       *)
C1_ResponseEchoesRequest ==
    (api = "request" /\ pc = "done" /\ ret = "value") =>
        /\ (Len(response) >= 1 => response[1] = payload[1] + 64)
        /\ ((Len(payload) >= 2 /\ Len(response) >= 2) => response[2] = payload[2])

(* C2: a message of N bytes, 8 <= N, that echoes the request and arrives   *)
(* in order as a first frame and its consecutive frames, each before the   *)
(* deadline, is returned by request() byte for byte, N bytes long.         *)
C2_RoundTrip ==
    (api = "request" /\ pc = "done" /\ peer.n >= 8) =>
        /\ ret = "value"
        /\ Len(response) = peer.n
        /\ response = Msg(peer.n)

\* the same, for the messages that need at most 15 consecutive frames
RoundTripUpTo111 ==
    (api = "request" /\ pc = "done" /\ peer.n >= 8 /\ peer.n <= 111) =>
        (ret = "value" /\ response = Msg(peer.n))

(* C3: when the poll loop, not in a reassembly, takes a well addressed     *)
(* single frame of declared length L in 1..7 that echoes the request,      *)
(* request() returns frame bytes 1..L and nothing else, whatever the       *)
(* padding after them is.                                                  *)
C3_SingleFrameSlice ==
    [][ ( /\ Receives
          /\ multiframe_seq = 0
          /\ WellAddressed(Head(rxq))
          /\ EchoingSf(Head(rxq).data) )
        => ( /\ pc' = "done"
             /\ ret' = "value"
             /\ Len(response') = Head(rxq).data[1]
             /\ \A i \in 1..Head(rxq).data[1] :
                    response'[i] = Head(rxq).data[i + 1] ) ]_vars

\* a frame with padding other than 0xAA was returned as its 4 declared bytes
C3_Witness ==
    /\ pc = "done"
    /\ exit = "single_frame"
    /\ used = <<Frame(resp_id(extframe)[1], extframe, FALSE,
                      <<4, 65, 12, 26, 10, 85, 0, 255>>)>>
    /\ response = <<65, 12, 26, 10>>

(* C4: every frame that changes the state of request() has an identifier   *)
(* inside the response range, the session's extended flag and no remote    *)
(* request flag.                                                           *)
C4_OnlyResponseRangeUsed ==
    \A i \in 1..Len(used) : WellAddressed(used[i])

(* C5: request() returns the timeout result only when the deadline has     *)
(* passed, the deadline is never earlier than timeout_ms after the         *)
(* transmission of the request and is exactly that when no frame arrived;  *)
(* once the deadline has passed the poll loop does nothing but return the  *)
(* timeout result, and it does return it.                                  *)
C5_NotEarly ==
    (api = "request" /\ pc = "done" /\ exit = "timeout") =>
        /\ ret = "None"
        /\ now >= rx_timeout
        /\ rx_timeout >= txlog[1].t + timeout_ms
        /\ (nframes = 0 => rx_timeout = txlog[1].t + timeout_ms)

C5_AtDeadline ==
    (pc = "poll" /\ now >= rx_timeout) =>
        \/ pc' = "done" /\ exit' = "timeout" /\ ret' = "None"
        \/ pc' = "poll" /\ UNCHANGED <<reasmVars, rx_timeout, now, endVars, used>>

C5_Timeout ==
    /\ []C5_NotEarly
    /\ [][C5_AtDeadline]_vars
    /\ (pc = "poll" /\ nframes = 0) ~> (exit = "timeout" \/ nframes > 0)
    /\ (pc = "poll" /\ now >= rx_timeout) ~> (exit = "timeout")

\* no frame arrived and request() returned None at the deadline
C5_Witness ==
    /\ api = "request"
    /\ pc = "done"
    /\ exit = "timeout"
    /\ nframes = 0
    /\ now = txlog[1].t + timeout_ms

(* C6: a send() with retry budget N that returns failure has made N + 1    *)
(* transmit attempts, one that returns success at most N + 1, and the      *)
(* receive queue was cleared before each attempt.                          *)
C6_RetryBudget ==
    (api = "send" /\ pc = "done") =>
        /\ clears = attempts
        /\ (ret = "False" => attempts = budget + 1)
        /\ (ret = "True" => attempts <= budget + 1)

(* C7: request() ends with a validated response, with the timeout result   *)
(* or with the failure of a send, and never by raising.                    *)
C7_ThreeWaysOut ==
    (api = "request" /\ pc = "done") =>
        \/ ret = "value" /\ exit \in {"single_frame", "cf_complete"}
        \/ ret = "None" /\ exit = "timeout"
        \/ ret = "None" /\ exit \in {"send_failed", "fc_failed"}

(* C8: from a 32 bit bitmap answering block base b, get_supported_pid      *)
(* appends PID b + i + 1 for exactly the i in 0..31 whose bit 31 - i is    *)
(* set; the bitmap 0xFFFFFFFF for block 0x00 gives the PIDs 1..32 and is   *)
(* followed by the request for block 0x20.                                 *)
MaskBit(bm, i) == (bm[(i \div 8) + 1] \div (2 ^ (7 - (i % 8)))) % 2 = 1

BitmapAnswered ==
    /\ api = "get_supported_pid"
    /\ svc = "running"
    /\ pc = "done"
    /\ ret = "value"
    /\ Len(response) = 6

Appended == {result'[j] : j \in (Len(result) + 1)..Len(result')}

C8_BitmapDecode ==
    [][ BitmapAnswered =>
          LET bm == SubSeq(response, 3, 6) IN
          /\ Appended = {pid_code + i + 1 : i \in {j \in 0..31 : MaskBit(bm, j)}}
          /\ (pid_code = 0 /\ bm = <<255, 255, 255, 255>>) =>
                 (Appended = 1..32 /\ pc' = "req_send" /\ payload' = <<1, 32>>) ]_vars

\* the same for the first 31 PIDs of the block, below the last block
BitmapDecodeFirst31 ==
    [][ BitmapAnswered =>
          LET bm == SubSeq(response, 3, 6) IN
          /\ Appended = {pid_code + i + 1 : i \in {j \in 0..30 : MaskBit(bm, j)}}
          /\ (MaskBit(bm, 31) /\ pid_code < 224) =>
                 (pc' = "req_send" /\ payload' = <<1, pid_code + 32>>)
          /\ ~MaskBit(bm, 31) => svc' = "returned" ]_vars

(* C9: get_supported_pid asks for the blocks 0x00, 0x20, 0x40, ... in this *)
(* order with service 0x01, every PID code it asks for is a byte, and it   *)
(* ends by returning, never by raising, whatever the responder does.       *)
C9_BlockRequests ==
    api = "get_supported_pid" =>
        /\ pid_code \in 0..255
        /\ payload = <<1, pid_code>>
        /\ svc # "raised"
        /\ \A k \in 1..Len(txlog) :
              txlog[k].data[2] = 1 /\ txlog[k].data[3] = 32 * (k - 1)

(* C10: get_dtcs returns one code per pair (A, B) of DTC bytes, 5          *)
(* characters each: P, C, B or U by the top 2 bits of A, then one          *)
(* character per digit for bits 5-4 of A, the low nibble of A, the high    *)
(* nibble of B and the low nibble of B; for an odd number of DTC bytes or  *)
(* no response it returns the empty list, and it never raises.             *)
Letter(a) ==
    CASE a \div 64 = 0 -> "P" [] a \div 64 = 1 -> "C"
      [] a \div 64 = 2 -> "B" [] a \div 64 = 3 -> "U"

\* the 4 digits of the pair (a, b)
Nibbles(a, b) == <<(a \div 16) % 4, a % 16, b \div 16, b % 16>>

WellFormedCode(c, a, b) ==
    /\ Len(c) = 5
    /\ c[1] = Letter(a)
    /\ \A j \in 1..4 :
          Nibbles(a, b)[j] < 10 => c[j + 1] = Digits[Nibbles(a, b)[j] + 1]

C10_DtcDecode ==
    (api = "get_dtcs" /\ svc # "running") =>
        LET dtc == SubSeq(response, 3, Len(response)) IN
        /\ svc = "returned"
        /\ IF ret = "value" /\ Len(dtc) % 2 = 0
           THEN /\ Len(codes) = Len(dtc) \div 2
                /\ \A k \in 1..Len(codes) :
                      WellFormedCode(codes[k], dtc[2 * k - 1], dtc[2 * k])
           ELSE codes = <<>>

\* the same without the length of a code, for the digits below 10
DtcDecodeDecimalDigits ==
    (api = "get_dtcs" /\ svc # "running") =>
        LET dtc == SubSeq(response, 3, Len(response)) IN
        /\ svc = "returned"
        /\ IF ret = "value" /\ Len(dtc) % 2 = 0
           THEN /\ Len(codes) = Len(dtc) \div 2
                /\ \A k \in 1..Len(codes) :
                      /\ codes[k][1] = Letter(dtc[2 * k - 1])
                      /\ (\A j \in 1..4 :
                             Nibbles(dtc[2 * k - 1], dtc[2 * k])[j] < 10)
                           => WellFormedCode(codes[k], dtc[2 * k - 1], dtc[2 * k])
           ELSE codes = <<>>

\* the bytes 01 43 were decoded to P0143
DtcP0143 ==
    /\ api = "get_dtcs"
    /\ svc = "returned"
    /\ response = <<67, 1, 1, 67>>
    /\ codes = << <<"P", "0", "1", "4", "3">> >>

(***************************************************************************)
(* What the specification says of the reassembly.                          *)
(***************************************************************************)
\* this step accepts a first frame: the flow control frame is sent next
AcceptsFf == pc = "poll" /\ pc' = "fc_send"

\* this step appends a consecutive frame and the reassembly goes on
AcceptsCf ==
    /\ Receives
    /\ multiframe_seq # 0
    /\ multiframe_buf' # multiframe_buf
    /\ pc' = "poll"

(* C11: the next expected sequence number of a reassembly is 1 once the    *)
(* first frame is accepted, and after the consecutive frame numbered k is   *)
(* accepted it is k + 1 for k < 15 and 1 for k = 15; it is never 0.        *)
C11_SeqCycle ==
    [][ /\ AcceptsFf => multiframe_seq' = 1
        /\ AcceptsCf =>
              LET k == Head(rxq).data[1] % 16 IN
              /\ multiframe_seq' \in 1..15
              /\ multiframe_seq' = IF k < 15 THEN k + 1 ELSE 1 ]_vars

\* the same up to the consecutive frame numbered 14
SeqCycleBelow15 ==
    [][ /\ AcceptsFf => multiframe_seq' = 1
        /\ (AcceptsCf /\ Head(rxq).data[1] % 16 < 15) =>
              multiframe_seq' = (Head(rxq).data[1] % 16) + 1 ]_vars

(***************************************************************************)
(* The responder of RtSpec on a bus where, while a consecutive frame is    *)
(* due, a consecutive frame with another sequence number may arrive first  *)
(* (a repetition, a frame out of order, number 0).  peer.stray counts      *)
(* these frames.                                                           *)
(***************************************************************************)
CallRequestStray ==
    /\ pc = "idle"
    /\ \E n \in 8..MaxStrayLen, t \in Timeouts :
          /\ api' = "request"
          /\ peer' = [n |-> n, sent |-> 0, stray |-> 0]
          /\ EnterRequest(RtRequest, t)
    /\ UNCHANGED <<extframe, reasmVars, rx_timeout, now, rxq, txlog, nframes,
                   svcVars, ecuVars>>

\* the sequence numbers of a frame that is not the k-th consecutive frame
StraySeqs(k) == {0, 15, (CfSeq(k) % 15) + 1} \ {CfSeq(k)}

PeerStray ==
    /\ pc = "poll"
    /\ InTime(rx_timeout, now)
    /\ rxq = <<>>
    /\ peer.sent >= 1
    /\ peer.sent <= NumCf(peer.n)
    /\ Len(txlog) >= 2
    /\ peer.stray < MaxStray
    /\ \E s \in StraySeqs(peer.sent) :
          rxq' = <<Frame(resp_id(extframe)[1], extframe, FALSE,
                         <<32 + s>> \o Repeat(238, 7))>>
    /\ peer' = [peer EXCEPT !.stray = @ + 1]
    /\ nframes' = nframes + 1
    /\ UNCHANGED <<extframe, callVars, pc, endVars, reasmVars, rx_timeout, now,
                   txlog, sendVars, used, svcVars, ecuVars>>

StrayNext ==
    \/ CallRequestStray
    \/ SendOk
    \/ PollRecv
    \/ PollTimeout
    \/ Tick
    \/ PeerSegment
    \/ PeerStray

StraySpec == Init /\ [][StrayNext]_vars

\* the poll loop takes a consecutive frame while it waits for one
TakesCf ==
    /\ Receives
    /\ multiframe_seq # 0
    /\ Accepted(Head(rxq), extframe)
    /\ Len(Head(rxq).data) >= 1
    /\ Head(rxq).data[1] \div 16 = 2

(* C12: while a reassembly is active a consecutive frame whose sequence    *)
(* number is not the expected one leaves the buffer, the total length, the *)
(* expected sequence number and the deadline as they are and request()     *)
(* polls on; the frame with the expected number is appended whenever it    *)
(* comes, so the message is still returned whole unless the deadline      *)
(* passes.                                                                 *)
C12_Ignored ==
    (TakesCf /\ Head(rxq).data[1] % 16 # multiframe_seq) =>
        (UNCHANGED <<reasmVars, rx_timeout, endVars>> /\ pc' = "poll")

C12_StillAccepted ==
    (TakesCf /\ Head(rxq).data[1] % 16 = multiframe_seq) =>
        multiframe_buf' = multiframe_buf \o SliceFrom(Head(rxq).data, 1)

C12_MismatchIgnored ==
    /\ [][C12_Ignored]_vars
    /\ [][C12_StillAccepted]_vars
    /\ [](pc = "done" =>
            \/ ret = "value" /\ response = Msg(peer.n)
            \/ ret = "None" /\ exit = "timeout")

\* a message of three consecutive frames was returned whole although two
\* frames with a wrong sequence number arrived in between
C12_Witness ==
    /\ pc = "done"
    /\ peer.stray = 2
    /\ NumCf(peer.n) = 3
    /\ ret = "value"
    /\ response = Msg(peer.n)

\* a first frame the validation of lines 229-237 turns down
RejectedFf(d) ==
    /\ Len(d) >= 3
    /\ d[1] \div 16 = 1
    /\ \/ (d[1] % 16) * 256 + d[2] <= 7
       \/ d[3] # payload[1] + 64
       \/ Len(d) >= 4 /\ Len(payload) >= 2 /\ d[4] # payload[2]

(* C13: a first frame that is turned down (total length <= 7, or the       *)
(* service id or PID does not echo the request) starts no reassembly,      *)
(* sends no flow control frame and leaves the deadline alone, and a valid  *)
(* single frame taken later, no first frame having been accepted, still    *)
(* ends request() with its bytes.                                          *)
C13_RejectedFfNoEffect ==
    [][ /\ ( /\ Receives
             /\ multiframe_seq = 0
             /\ WellAddressed(Head(rxq))
             /\ RejectedFf(Head(rxq).data) )
           => ( /\ pc' = "poll"
                /\ UNCHANGED <<reasmVars, rx_timeout, txlog, endVars>> )
        /\ ( /\ Receives
             /\ Len(txlog) = 1
             /\ WellAddressed(Head(rxq))
             /\ EchoingSf(Head(rxq).data) )
           => ( /\ pc' = "done"
                /\ ret' = "value"
                /\ response' = SfSlice(Head(rxq).data) ) ]_vars

\* what does hold: no flow control frame, the deadline is not reset
RejectedFfSendsNothing ==
    [][ ( /\ Receives
          /\ multiframe_seq = 0
          /\ WellAddressed(Head(rxq))
          /\ RejectedFf(Head(rxq).data) )
        => ( /\ pc' = "poll"
             /\ UNCHANGED <<rx_timeout, txlog, endVars>> ) ]_vars

(* C14: request() returns from the single frame branch only for a frame    *)
(* whose first byte, the declared length, is in 1..7; a frame with first   *)
(* byte 0x00 or 0x08..0x0F is dropped and the loop goes on.                *)
C14_SfLength ==
    [][ ( /\ Receives
          /\ multiframe_seq = 0
          /\ Len(Head(rxq).data) >= 3
          /\ Head(rxq).data[1] \in {0} \cup 8..15 )
        => ( /\ pc' = "poll"
             /\ UNCHANGED <<reasmVars, rx_timeout, endVars>> ) ]_vars

(***************************************************************************)
(* The simulator, dummy_ecu.py.  process() is one poll cycle: it takes at  *)
(* most one frame off the driver's queue, validates it, computes the value *)
(* of the PID and transmits the response twice.  The two can.send calls    *)
(* are two steps, so that the client can run in between.                   *)
(***************************************************************************)
\* DummyEcu.__init__: self._reqs_id, self._resp_id
ecu_reqs_id(ext) == IF ext THEN 417018865 ELSE 2015

ecu_resp_id(ext) == IF ext THEN <<417001744, 417001759>> ELSE <<2024, 2031>>

\* self.supported_pids
supported_pids ==
    <<1, 3, 4, 5, 6, 11, 12, 13, 14, 15, 16, 17, 19, 21, 31, 33, 46, 47, 48, 49,
      51, 52, 66, 67, 68, 69, 71, 73, 76>>

SupportedSet == {supported_pids[k] : k \in 1..Len(supported_pids)}

\* the bits of value after lines 70-77, as the set of their positions
BitmapBits_Shifted(pid) ==
    {pid + 32 - i : i \in {j \in pid..(pid + 30) : (j + 1) \in SupportedSet}}
    \cup (IF \E q \in SupportedSet : q > pid + 32 THEN {0} ELSE {})

BitmapBits(pid) ==
    {pid + 31 - i : i \in {j \in pid..(pid + 30) : (j + 1) \in SupportedSet}}
    \cup (IF \E q \in SupportedSet : q > pid + 32 THEN {0} ELSE {})

\* byte j (1 the most significant) of the 4 byte big-endian number with the
\* bits B set: value.to_bytes(4, "big")
ByteOfBits(B, j) ==
    LET bit(b) == IF (8 * (4 - j) + b) \in B THEN 2 ^ b ELSE 0
    IN  bit(0) + bit(1) + bit(2) + bit(3) + bit(4) + bit(5) + bit(6) + bit(7)

BitsToBytes(B) == [j \in 1..4 |-> ByteOfBits(B, j)]

\* v.to_bytes(2, "big")
ToBytes2(v) == <<v \div 256, v % 256>>

\* randint(a, b): any integer of a..b; the ends and the middle are tried
randint(a, b) == {a, (a + b) \div 2, b}

\* lines 69-90: the values the dispatch can produce for a PID code; none
\* when the code is not recognised
Values(pid) ==
    IF pid % 32 = 0 /\ pid < 192 THEN {BitsToBytes(BitmapBits(pid))}
    ELSE IF pid = 12 THEN {ToBytes2(r * 4) : r \in randint(770, 880)}
    ELSE IF pid = 13 THEN {<<r>> : r \in randint(50, 60)}
    ELSE IF pid = 66 THEN {ToBytes2(r) : r \in randint(12000, 14000)}
    ELSE IF pid = 5 THEN {<<r + 40>> : r \in randint(90, 120)}
    ELSE IF pid = 16 THEN {ToBytes2(r) : r \in randint(10000, 20000)}
    ELSE {}

\* line 92
EcuMsg(pid, value) ==
    <<Len(value) + 2, 65, pid>> \o value \o Repeat(170, 5 - Len(value))

\* lines 95-96: the identifiers of the two transmissions
EcuTxIds_Twice(ext) == <<ecu_resp_id(ext)[1] + 1, ecu_resp_id(ext)[1] + 1>>

EcuTxIds(ext) == <<ecu_resp_id(ext)[1] + 1, ecu_resp_id(ext)[1] + 13>>

\* lines 57-66 and 90: what process() does with the frame f, under the
\* addressing mode ext: drop it, raise IndexError, or dispatch on its PID
EcuOutcome_AnyLength(f, ext) ==
    IF f.rtr \/ f.ext # ext THEN "drop"
    ELSE IF f.id # ecu_reqs_id(ext) THEN "drop"
    ELSE IF Len(f.data) < 2 THEN "raise"
    ELSE IF f.data[2] # 1 THEN "drop"
    ELSE IF Len(f.data) < 3 THEN "raise"
    ELSE IF Values(f.data[3]) = {} THEN "drop"
    ELSE "dispatch"

EcuOutcome(f, ext) ==
    IF f.rtr \/ f.ext # ext THEN "drop"
    ELSE IF f.id # ecu_reqs_id(ext) THEN "drop"
    ELSE IF Len(f.data) = 0 THEN "raise"
    ELSE IF f.data[1] # 2 THEN "drop"
    ELSE IF Len(f.data) < 2 THEN "raise"
    ELSE IF f.data[2] # 1 THEN "drop"
    ELSE IF Len(f.data) < 3 THEN "raise"
    ELSE IF Values(f.data[3]) = {} THEN "drop"
    ELSE "dispatch"

\* a frame on the bus, with the transmission of the client it answers
Tagged(f, re) ==
    [id |-> f.id, ext |-> f.ext, rtr |-> f.rtr, data |-> f.data, re |-> re]

\* the state of the client and of the responders of the other sections
clientVars ==
    <<extframe, callVars, pc, endVars, reasmVars, rx_timeout, now, rxq, txlog,
      sendVars, nframes, used, svcVars, peer>>

\* can.send(list(msg), id, timeout=0, ...): the call number k of the cycle,
\* which the driver accepts (ok) or answers with an exception
EcuSend(e, k, ok) ==
    [e EXCEPT !.tx = Append(@, [id |-> EcuTxIds(e.extframe)[k],
                                data |-> e.msg, ok |-> ok]),
              !.pc = IF ok /\ k = 1 THEN "second" ELSE "idle"]

\* the frame a can.send call of the simulator puts on the bus
EcuFrame(e, k) ==
    Tagged(Frame(EcuTxIds(e.extframe)[k], e.extframe, FALSE, e.msg), e.re)

\* process() from line 50 to the first can.send, line 95; Oks are the
\* outcomes the driver's send can have
EcuProcess(Oks) ==
    /\ ecu.pc = "idle"
    /\ ecu.rxq # <<>>
    /\ LET f == Head(ecu.rxq)
           o == EcuOutcome(f, ecu.extframe)
           e == [ecu EXCEPT !.rxq = Tail(@), !.last = <<f>>, !.tx = <<>>,
                            !.msg = <<>>, !.re = f.re]
       IN  CASE o = "drop" -> ecu' = e /\ UNCHANGED wire
             [] o = "raise" -> ecu' = [e EXCEPT !.pc = "raised"] /\ UNCHANGED wire
             [] o = "dispatch" ->
                  \E v \in Values(f.data[3]), ok \in Oks :
                     LET em == [e EXCEPT !.msg = EcuMsg(f.data[3], v)] IN
                     /\ ecu' = EcuSend(em, 1, ok)
                     /\ wire' = IF ok THEN Append(wire, EcuFrame(em, 1)) ELSE wire
    /\ UNCHANGED clientVars

\* the second can.send, line 96
EcuSecond(Oks) ==
    /\ ecu.pc = "second"
    /\ \E ok \in Oks :
          /\ ecu' = EcuSend(ecu, 2, ok)
          /\ wire' = IF ok THEN Append(wire, EcuFrame(ecu, 2)) ELSE wire
    /\ UNCHANGED clientVars

\* the bus: the simulator's driver queues the next frame the client sent
BusToEcu ==
    /\ ecu.heard < Len(txlog)
    /\ Len(ecu.rxq) < MaxQueue
    /\ LET f == txlog[ecu.heard + 1] IN
       ecu' = [ecu EXCEPT !.heard = @ + 1,
                          !.rxq = Append(@, Tagged(f, ecu.heard + 1))]
    /\ UNCHANGED <<clientVars, wire>>

\* the bus: the client's driver queues the next frame the simulator sent
WireToClient ==
    /\ wire # <<>>
    /\ Len(rxq) < MaxQueue
    /\ rxq' = Append(rxq, Head(wire))
    /\ wire' = Tail(wire)
    /\ nframes' = nframes + 1
    /\ UNCHANGED <<extframe, callVars, pc, endVars, reasmVars, rx_timeout, now,
                   txlog, sendVars, used, svcVars, peer, ecu>>

\* the clock reaches the deadline only when the simulator has nothing left
\* to do for the client: it answers well within the timeout
ElapseQuiet ==
    /\ wire = <<>>
    /\ ecu.rxq = <<>>
    /\ ecu.heard = Len(txlog)
    /\ ecu.pc # "second"
    /\ Elapse

\* get_pid("rpm"): request(0x01, 0x0C); request(0x01, 0x04) is a PID the
\* simulator does not know
EcuRequests == {<<1, 12>>, <<1, 4>>}

\* request() is called, for the first time or after it has returned
CallRequestEcu ==
    /\ \/ pc = "idle"
       \/ pc = "done" /\ api = "request" /\ Len(txlog) < MaxCalls
    /\ \E p \in EcuRequests :
          /\ api' = "request"
          /\ EnterRequest(p, DEFAULT_TIMEOUT_MS)
    /\ UNCHANGED <<extframe, reasmVars, rx_timeout, now, rxq, txlog, nframes,
                   svcVars, peer, ecuVars>>

EcuProcessOk == EcuProcess({TRUE})

EcuSecondOk == EcuSecond({TRUE})

\* client and simulator on one bus, both drivers transmitting without error
EcuNext ==
    \/ CallRequestEcu
    \/ CallGetSupportedPid
    \/ SupportedPidStep
    \/ SendOk
    \/ PollRecv
    \/ PollTimeout
    \/ ElapseQuiet
    \/ BusToEcu
    \/ EcuProcessOk
    \/ EcuSecondOk
    \/ WireToClient

EcuSpec == Init /\ [][EcuNext]_vars

(***************************************************************************)
(* What the specification says of the two peers on one bus.                *)
(***************************************************************************)
(* C15: the frame a request() call returns was transmitted by the          *)
(* simulator in reply to the request of that call, not of an earlier one,  *)
(* however the steps of the client, of the simulator and of the bus        *)
(* interleave.                                                             *)
C15_NoStaleFrame ==
    (api = "request" /\ pc = "done" /\ ret = "value") =>
        used[Len(used)].re = Len(txlog)

\* what does hold: a reply to an earlier request is returned only when that
\* request asked for the same service and PID
StaleOnlyForSameRequest ==
    (api = "request" /\ pc = "done" /\ ret = "value") =>
        txlog[used[Len(used)].re].data = txlog[Len(txlog)].data

(***************************************************************************)
(* The simulator alone, fed by other nodes of the bus, on a driver whose   *)
(* send may fail.                                                          *)
(***************************************************************************)
\* data of frames on the request identifier: requests for PIDs the dispatch
\* knows and does not know, other lengths and services, short frames, a
\* flow control frame
EcuData ==
    { <<2, 1, q>> \o Repeat(204, 5) : q \in {0, 32, 160, 192, 12, 13, 66, 5, 16, 4} }
    \cup { <<3, 1, 12, 204, 204, 204, 204, 204>>,
           <<1, 1, 12, 204, 204, 204, 204, 204>>,
           <<2, 9, 2, 204, 204, 204, 204, 204>>,
           <<48, 0, 0, 204, 204, 204, 204, 204>>,
           <<2, 1>>, <<2>>, <<>> }

EcuFrames(ext) ==
    { Frame(ecu_reqs_id(ext), ext, FALSE, d) : d \in EcuData }
    \cup { Frame(ecu_resp_id(ext)[1], ext, FALSE, <<2, 1, 12, 204, 204, 204, 204, 204>>),
           Frame(ecu_reqs_id(ext), ~ext, FALSE, <<2, 1, 12, 204, 204, 204, 204, 204>>),
           Frame(ecu_reqs_id(ext), ext, TRUE, <<2, 1, 12, 204, 204, 204, 204, 204>>) }

FrameToEcu ==
    /\ ecu.heard < MaxEcuFrames
    /\ Len(ecu.rxq) < MaxQueue
    /\ \E f \in EcuFrames(ecu.extframe) :
          ecu' = [ecu EXCEPT !.heard = @ + 1, !.rxq = Append(@, Tagged(f, 0))]
    /\ UNCHANGED <<clientVars, wire>>

EcuProcessAny == EcuProcess(BOOLEAN)

EcuSecondAny == EcuSecond(BOOLEAN)

SimNext ==
    \/ FrameToEcu
    \/ EcuProcessAny
    \/ EcuSecondAny
    \/ WireToClient

SimSpec == Init /\ [][SimNext]_vars

\* the PID codes the specification lists as recognised
ListedPid(q) == (q % 32 = 0 /\ q < 192) \/ q \in {5, 12, 13, 16, 66}

\* the frame passes the validation as the specification states it, with the
\* declared length compared by Cmp
PassesWith(f, Cmp(_)) ==
    /\ f.id = ecu_reqs_id(ecu.extframe)
    /\ f.ext = ecu.extframe
    /\ ~f.rtr
    /\ Len(f.data) >= 3
    /\ Cmp(f.data[1])
    /\ f.data[2] = 1
    /\ ListedPid(f.data[3])

AtLeast2(x) == x >= 2

Exactly2(x) == x = 2

\* a poll cycle takes at most one frame off the queue
OneFramePerCycle == Len(ecu'.rxq) >= Len(ecu.rxq) - 1

ValueWidth(q) ==
    IF q % 32 = 0 THEN 4 ELSE IF q \in {12, 66, 16} THEN 2 ELSE 1

(* C17: the can.send calls of one poll cycle are at most two; the first    *)
(* goes to base response id + 1, the second, made only when the first      *)
(* succeeded, to base response id + 0x0D with the same frame of 8 bytes:   *)
(* value width + 2, 0x41, the PID code of the request, the value, 0xAA up  *)
(* to the end.  After a failed call the cycle is over, and the bus carries *)
(* a frame only for a call that succeeded.                                 *)
C17_Shape ==
    ecu.tx # <<>> =>
        LET d == ecu.tx[1].data
            q == ecu.last[1].data[3]
            base == ecu_resp_id(ecu.extframe)[1]
        IN  /\ Len(ecu.tx) <= 2
            /\ Len(d) = 8
            /\ d[1] = ValueWidth(q) + 2
            /\ d[2] = 65
            /\ d[3] = q
            /\ \A i \in (4 + ValueWidth(q))..8 : d[i] = 170
            /\ ecu.tx[1].id = base + 1
            /\ Len(ecu.tx) = 2 =>
                   /\ ecu.tx[1].ok
                   /\ ecu.tx[2].id = base + 13
                   /\ ecu.tx[2].data = d
            /\ ecu.pc = "second" <=> (Len(ecu.tx) = 1 /\ ecu.tx[1].ok)

\* a can.send call adds to the bus its frame if it succeeds, nothing if not
C17_Sends ==
    (ecu'.tx # ecu.tx /\ ecu'.tx # <<>>) =>
        LET c == ecu'.tx[Len(ecu'.tx)] IN
        IF c.ok
        THEN /\ Len(wire') = Len(wire) + 1
             /\ wire'[Len(wire')].id = c.id
             /\ wire'[Len(wire')].data = c.data
        ELSE wire' = wire

C17_TwoTransmissions ==
    /\ []C17_Shape
    /\ [][C17_Sends]_vars

\* both transmissions of a response were made
C17_Witness ==
    /\ Len(ecu.tx) = 2
    /\ ecu.tx[2].ok
    /\ ecu.tx[1].id + 12 = ecu.tx[2].id
    /\ ecu.pc = "idle"

\* the supported PIDs above the block after base b
Beyond(b) == {q \in SupportedSet : q > b + 32}

(* C18: get_supported_pid against the simulator, same addressing mode, no  *)
(* frame lost: it asks for the blocks 0x00, 0x20, 0x40 and no other, it    *)
(* stops at the first block with no supported PID above base + 0x20, and   *)
(* it returns the simulator's supported PIDs, each once, in increasing     *)
(* order.                                                                  *)
C18_BitmapRoundTrip ==
    api = "get_supported_pid" =>
        /\ svc # "raised"
        /\ Len(txlog) <= 3
        /\ \A k \in 1..Len(txlog) :
              SubSeq(txlog[k].data, 1, 3) = <<2, 1, 32 * (k - 1)>>
        /\ \A k \in 1..(Len(txlog) - 1) : Beyond(32 * (k - 1)) # {}
        /\ svc = "returned" =>
              /\ result = supported_pids
              /\ \A i \in 1..(Len(result) - 1) : result[i] < result[i + 1]
              /\ {result[i] : i \in 1..Len(result)} = SupportedSet
              /\ Len(txlog) = 3
              /\ Beyond(pid_code) = {}

\* the 29 PIDs were returned after the third block
C18_Witness ==
    /\ api = "get_supported_pid"
    /\ svc = "returned"
    /\ pid_code = 64
    /\ Len(result) = 29
    /\ result[29] = 76

(***************************************************************************)
(* The responder of RtSpec when it may start its message over at any       *)
(* point: first frame, consecutive frames, first frame again, ...          *)
(* peer.repeats counts the restarts.                                       *)
(***************************************************************************)
\* the lengths of its message: 3, 15, 16 and the most consecutive frames
RepeatLens == {20, 111, 112, MaxMsgLen}

CallRequestRepeat ==
    /\ pc = "idle"
    /\ \E n \in RepeatLens, t \in Timeouts :
          /\ api' = "request"
          /\ peer' = [n |-> n, sent |-> 0, repeats |-> 0]
          /\ EnterRequest(RtRequest, t)
    /\ UNCHANGED <<extframe, reasmVars, rx_timeout, now, rxq, txlog, nframes,
                   svcVars, ecuVars>>

PeerRepeat ==
    /\ pc = "poll"
    /\ rxq = <<>>
    /\ peer.sent >= 1
    /\ peer.repeats < MaxRepeats
    /\ peer' = [peer EXCEPT !.sent = 0, !.repeats = @ + 1]
    /\ UNCHANGED <<extframe, callVars, pc, endVars, reasmVars, rx_timeout, now,
                   rxq, txlog, sendVars, nframes, used, svcVars, ecuVars>>

RepeatNext ==
    \/ CallRequestRepeat
    \/ SendOk
    \/ PollRecv
    \/ PollTimeout
    \/ TickRT
    \/ PeerSegment
    \/ PeerRepeat

RepeatSpec == Init /\ [][RepeatNext]_vars

\* the flow control frames request() has transmitted
FlowControls == {k \in 1..Len(txlog) : txlog[k].data[1] = FC_CTS}

(* C19: one request() call accepts at most one first frame: it transmits   *)
(* at most one flow control frame, and the frames that set the deadline    *)
(* anew are that first frame and the consecutive frames of its message, no *)
(* more than the message's length allows.                                  *)
C19_OneReassembly ==
    api = "request" =>
        /\ Cardinality(FlowControls) <= 1
        /\ Len(used) <= 1 + NumCf(multiframe_len)

\* the same for the messages that need at most 15 consecutive frames
OneReassemblyUpTo111 ==
    (api = "request" /\ peer.n <= 111) =>
        /\ Cardinality(FlowControls) <= 1
        /\ Len(used) <= 1 + NumCf(multiframe_len)

(* C20: when request() returns a reassembled message, the first frame it  *)
(* accepted and every consecutive frame it appended, all with identifiers  *)
(* inside the response range, carry one and the same identifier.           *)
C20_OneResponder ==
    ( /\ api = "request"
      /\ exit = "cf_complete"
      /\ Len(txlog) = 2
      /\ \A i \in 1..Len(used) : WellAddressed(used[i]) )
    => \A i \in 1..Len(used) : used[i].id = used[1].id

\* the identifier lies in the client's inclusive response range of mode ext
InClientRange(id, ext) == resp_id(ext)[1] <= id /\ id <= resp_id(ext)[2]

(* C21: in standard and in extended addressing, every identifier the       *)
(* simulator calls the driver's send with, base response id + 1 and base   *)
(* response id + 0x0D, lies inside the response range of a client in the   *)
(* same mode.                                                              *)
C21_TxIdsInClientRange ==
    \A k \in 1..Len(ecu.tx) : InClientRange(ecu.tx[k].id, ecu.extframe)

\* what does hold: the first identifier in both modes, both in extended mode
TxIdsInRangeExtended ==
    \A k \in 1..Len(ecu.tx) :
        (k = 1 \/ ecu.extframe) => InClientRange(ecu.tx[k].id, ecu.extframe)

=============================================================================
